---- MODULE Spec2Model ----
(***************************************************************************)
(* Model of the chooser v1 API worker (handleV1) over its D1 schema.       *)
(*                                                                         *)
(* The store is the tables of 0001_initial_schema.sql, each a set of rows  *)
(* (chooser_templates a function of the slug), plus the AUTOINCREMENT      *)
(* sequences of chooser_options and participant_selections.  Every         *)
(* constraint of the schema (primary key, UNIQUE, foreign keys with        *)
(* ON DELETE CASCADE) is applied by the statement operators, never by the  *)
(* shape of the data.  CURRENT_TIMESTAMP is the variable now.              *)
(*                                                                         *)
(* Spec runs every request handler to completion, one request at a time:   *)
(* the client sends its next request once it has received the response.    *)
(* SpecConc runs the submit handler one awaited statement at a time, for   *)
(* several clients at once, SpecReplace does the same for replaceAll.     *)
(* SpecRetention adds the scheduled cleanup and the passing of days,       *)
(* SpecSweeper schedules the cleanup fairly, SpecIds has several instances *)
(* whose ids can collide.  All use the same statement operators.           *)
(***************************************************************************)
EXTENDS Integers, Sequences, FiniteSets, TLC

VARIABLES
    chooser_templates,       \* table chooser_templates: slug -> template_data
    chooser_instances,       \* rows of table chooser_instances
    chooser_options,         \* rows of table chooser_options
    participant_selections,  \* rows of table participant_selections
    seq_options,             \* sqlite_sequence of chooser_options (last id used)
    seq_selections,          \* sqlite_sequence of participant_selections
    now,                     \* CURRENT_TIMESTAMP
    response,                \* the response on its way to the client: [op, status]
    procs                    \* SpecConc: the submit requests in flight, per client

vars == <<chooser_templates, chooser_instances, chooser_options,
          participant_selections, seq_options, seq_selections, now, response, procs>>

db_vars == <<chooser_templates, chooser_instances, chooser_options,
             participant_selections, seq_options, seq_selections>>

\* the store as one value, for the operators that run statements on it
DB == [templates |-> chooser_templates,
       instances |-> chooser_instances, options |-> chooser_options,
       selections |-> participant_selections,
       seq_options |-> seq_options, seq_selections |-> seq_selections]

\* the store after a handler or statement is db
StoreBecomes(db) ==
    /\ chooser_templates' = db.templates
    /\ chooser_instances' = db.instances
    /\ chooser_options' = db.options
    /\ participant_selections' = db.selections
    /\ seq_options' = db.seq_options
    /\ seq_selections' = db.seq_selections

----------------------------------------------------------------------------
(* Bounds of the model *)

\* the clock takes the values 0..MaxTime
MaxTime == 1
\* AUTOINCREMENT of chooser_options stops at this id
MaxOptionId == 2
\* AUTOINCREMENT of participant_selections stops at this id
MaxSelectionId == 2
\* a request body carries at most this many options or selections
MaxBatch == 2

----------------------------------------------------------------------------
(* Values *)

NULL == "NULL"

\* generateId(8): the public ids the generator can return here
PublicIds == {"aaaaaaaa", "bbbbbbbb"}
\* generateId(16): the admin tokens the generator can return here
AdminIds == {"aaaaaaaaaaaaaaaa", "bbbbbbbbbbbbbbbb"}
\* the (instanceId, adminId) pairs one create can draw: a repeated pair hits
\* the PRIMARY KEY, the third pair can hit UNIQUE(admin_id) alone
GeneratedIds ==
    { <<"aaaaaaaa", "aaaaaaaaaaaaaaaa">>,
      <<"bbbbbbbb", "bbbbbbbbbbbbbbbb">>,
      <<"bbbbbbbb", "aaaaaaaaaaaaaaaa">> }
\* Spec draws every create from one pair: a second create hits the PRIMARY KEY
GeneratedIdsOne == { <<"aaaaaaaa", "aaaaaaaaaaaaaaaa">> }

\* JSON.stringify / JSON.parse: a TEXT column holding a document is a
\* wrapped value, a parsed document is the value itself
JSON_stringify(v) == [json |-> v]
JSON_parse(t) == t.json

\* seeded rows of chooser_templates: slug -> template_data (TEXT)
SeedTemplates ==
    [slug \in {"weekly_time", "monthly_date", "potluck", "simple_poll"} |->
        [json |-> [type |-> slug]]]

DefaultLabels == <<"no", "ok", "ideal">>

\* order === undefined (the field is absent from the option)
OrderUndefined == -1

----------------------------------------------------------------------------
(* Request bodies *)

\* POST /choosers.  "" stands for an absent or empty string field;
\* has_labels is whether selection_labels is present in the body.
CreateRequests ==
    { [template_slug |-> "simple_poll", title |-> "Lunch",
       has_labels |-> FALSE, selection_labels |-> <<>>],
      [template_slug |-> "potluck", title |-> "Party",
       has_labels |-> TRUE, selection_labels |-> <<"yes", "no">>],
      [template_slug |-> "simple_poll", title |-> "Lunch",
       has_labels |-> TRUE, selection_labels |-> <<>>],
      [template_slug |-> "nope", title |-> "Lunch",
       has_labels |-> FALSE, selection_labels |-> <<>>],
      [template_slug |-> "simple_poll", title |-> "",
       has_labels |-> FALSE, selection_labels |-> <<>>],
      [template_slug |-> "", title |-> "Lunch",
       has_labels |-> FALSE, selection_labels |-> <<>>] }

\* admin_id of a request body: a token, a public id, or "" (absent)
SuppliedAdminIds == AdminIds \cup {"aaaaaaaa", ""}

\* one element of options[] in PUT /choosers/:id/options
OptionInputs ==
    { [value |-> "Pizza", order |-> 0],
      [value |-> "Tacos", order |-> 1],
      [value |-> "", order |-> 0],
      [value |-> "Tacos", order |-> OrderUndefined] }

SeqsUpTo(S, n) == UNION { [1..k -> S] : k \in 0..n }

OptionBatches == SeqsUpTo(OptionInputs, MaxBatch)

\* PUT /choosers/:id/options bodies: every batch under every token, and one
\* batch under an absent admin_id and under a public id given as admin_id
ReplaceAllRequests ==
    [admin_id : AdminIds, options : OptionBatches]
        \cup [admin_id : {"aaaaaaaa", ""}, options : {<<[value |-> "Pizza", order |-> 0]>>}]

\* one element of selections[] in POST /choosers/:id/selections;
\* option_id 0 and selection_value "" stand for an absent field
SelectionInputs ==
    [option_id : 1..MaxOptionId, selection_value : {"no", "ok", "yes"}]
        \cup { [option_id |-> 0, selection_value |-> "ok"],
               [option_id |-> 1, selection_value |-> ""] }

SelectionBatches == SeqsUpTo(SelectionInputs, MaxBatch)

\* POST /choosers/:id/selections bodies; participant_name "" is absent or empty
ParticipantNames == {"Alice", "Bob"}

SubmitRequests ==
    [participant_name : ParticipantNames, selections : SelectionBatches]
        \cup [participant_name : {""}, selections : {<<>>}]

----------------------------------------------------------------------------
(* SQL statements on chooser_instances *)

\* SELECT ... FROM chooser_instances WHERE id = ?  (.first())
HasInstance(instances, id) == \E c \in instances : c.id = id
InstanceRow(instances, id) == CHOOSE c \in instances : c.id = id

\* mutant of InsertInstanceFails: admin_id is not UNIQUE
InsertInstanceFailsIdOnly(instances, id, admin_id) ==
    \E c \in instances : c.id = id

\* INSERT INTO chooser_instances ... VALUES (?, ?, ?, ?, ?, ?, 0):
\* id is the PRIMARY KEY and admin_id is UNIQUE
InsertInstanceFails(instances, id, admin_id) ==
    \/ \E c \in instances : c.id = id
    \/ \E c \in instances : c.admin_id = admin_id

InsertInstance(instances, id, admin_id, title, description, template_data, labels, t) ==
    instances \cup
        { [id |-> id, admin_id |-> admin_id, title |-> title,
           description |-> description, template_data |-> template_data,
           selection_labels |-> labels, published |-> 0,
           created_at |-> t, updated_at |-> t, viewed_at |-> t] }

\* mutant of TouchUpdated: an edit puts the instance back in draft
TouchUpdatedDraft(instances, id, t) ==
    { IF c.id = id THEN [c EXCEPT !.updated_at = t, !.published = 0] ELSE c
        : c \in instances }

\* UPDATE chooser_instances SET updated_at = CURRENT_TIMESTAMP WHERE id = ?
TouchUpdated(instances, id, t) ==
    { IF c.id = id THEN [c EXCEPT !.updated_at = t] ELSE c : c \in instances }

\* UPDATE chooser_instances SET viewed_at = CURRENT_TIMESTAMP WHERE id = ?
TouchViewed(instances, id, t) ==
    { IF c.id = id THEN [c EXCEPT !.viewed_at = t] ELSE c : c \in instances }

\* UPDATE chooser_instances SET published = 1, updated_at = CURRENT_TIMESTAMP WHERE id = ?
SetPublished(instances, id, t) ==
    { IF c.id = id THEN [c EXCEPT !.published = 1, !.updated_at = t] ELSE c
        : c \in instances }

\* mutant of NotPublished: the draft check is dropped
NotPublishedDropped(chooser) == FALSE

\* if (chooser.published !== 1): the instance is still a draft
NotPublished(chooser) == chooser.published # 1

\* mutant of AdminMismatch: the public id is accepted as a token too
AdminMismatchOrPublic(chooser, admin_id) ==
    chooser.admin_id # admin_id /\ chooser.id # admin_id

\* if (chooser.admin_id !== admin_id): the supplied token is not the stored one
AdminMismatch(chooser, admin_id) == chooser.admin_id # admin_id

----------------------------------------------------------------------------
(* SQL statements on chooser_options *)

\* mutant of DeleteOptions: the selections of the deleted options stay
DeleteOptionsNoCascade(db, id) ==
    [db EXCEPT !.options = { o \in db.options : o.chooser_id # id }]

\* mutant of DeleteOptions: the WHERE clause is missing
DeleteOptionsAll(db, id) ==
    [db EXCEPT !.options = {}, !.selections = {}]

\* DELETE FROM chooser_options WHERE chooser_id = ?, with the cascade of
\* participant_selections.option_id REFERENCES chooser_options(id) ON DELETE CASCADE
DeleteOptions(db, id) ==
    LET gone == { o.id : o \in { x \in db.options : x.chooser_id = id } }
    IN  [db EXCEPT !.options = { o \in db.options : o.chooser_id # id },
                   !.selections = { s \in db.selections : s.option_id \notin gone }]

\* mutant of InsertOption: without AUTOINCREMENT the id is the largest id
\* in the table plus one
InsertOptionRowid(db, id, value, order, metadata) ==
    LET ids == { o.id : o \in db.options }
        next == IF ids = {} THEN 1 ELSE (CHOOSE m \in ids : \A k \in ids : k <= m) + 1
    IN  [db EXCEPT !.options = @ \cup { [id |-> next, chooser_id |-> id,
                                         option_value |-> value, option_order |-> order,
                                         metadata |-> metadata] },
                   !.seq_options = @ + 1]

\* INSERT INTO chooser_options (chooser_id, option_value, option_order, metadata):
\* id INTEGER PRIMARY KEY AUTOINCREMENT takes the next id of the sequence
InsertOption(db, id, value, order, metadata) ==
    [db EXCEPT !.options = @ \cup { [id |-> db.seq_options + 1, chooser_id |-> id,
                                     option_value |-> value, option_order |-> order,
                                     metadata |-> metadata] },
               !.seq_options = @ + 1]

\* mutant of OptionBelongs: the option is looked up by its id alone
OptionBelongsAnywhere(db, option_id, id) ==
    \E o \in db.options : o.id = option_id

\* SELECT id FROM chooser_options WHERE id = ? AND chooser_id = ?
OptionBelongs(db, option_id, id) ==
    \E o \in db.options : o.id = option_id /\ o.chooser_id = id

----------------------------------------------------------------------------
(* SQL statements on participant_selections *)

\* SELECT id FROM participant_selections
\* WHERE chooser_id = ? AND option_id = ? AND participant_name = ?
ExistingSelections(db, id, option_id, name) ==
    { s \in db.selections :
        s.chooser_id = id /\ s.option_id = option_id /\ s.participant_name = name }

\* mutant of UpdateSelection: the row is replaced, created_at included
UpdateSelectionReplace(db, row_id, value, t) ==
    [db EXCEPT !.selections =
        { IF s.id = row_id
          THEN [s EXCEPT !.selection_value = value, !.updated_at = t, !.created_at = t]
          ELSE s : s \in @ }]

\* mutant of UpdateSelection: WHERE names the option, not the row
UpdateSelectionByOption(db, row_id, value, t) ==
    LET option_ids == { s.option_id : s \in { x \in db.selections : x.id = row_id } }
    IN  [db EXCEPT !.selections =
            { IF s.option_id \in option_ids
              THEN [s EXCEPT !.selection_value = value, !.updated_at = t]
              ELSE s : s \in @ }]

\* UPDATE participant_selections
\* SET selection_value = ?, updated_at = CURRENT_TIMESTAMP WHERE id = ?
UpdateSelection(db, row_id, value, t) ==
    [db EXCEPT !.selections =
        { IF s.id = row_id THEN [s EXCEPT !.selection_value = value, !.updated_at = t]
          ELSE s : s \in @ }]

\* INSERT INTO participant_selections fails on idx_unique_participant_option
\* and on either foreign key
InsertSelectionFails(db, id, option_id, name) ==
    \/ \E s \in db.selections :
          s.chooser_id = id /\ s.option_id = option_id /\ s.participant_name = name
    \/ ~ \E c \in db.instances : c.id = id
    \/ ~ \E o \in db.options : o.id = option_id

\* INSERT INTO participant_selections
\* (chooser_id, option_id, participant_name, selection_value)
InsertSelection(db, id, option_id, name, value, t) ==
    [db EXCEPT !.selections = @ \cup { [id |-> db.seq_selections + 1, chooser_id |-> id,
                                        option_id |-> option_id,
                                        participant_name |-> name,
                                        selection_value |-> value,
                                        created_at |-> t, updated_at |-> t] },
               !.seq_selections = @ + 1]

----------------------------------------------------------------------------
(* Responses *)

Resp(op, status) == [op |-> op, status |-> status]

\* no response is on its way: the client may send a request
NoResponse == Resp("none", 0)
Idle == response = NoResponse

\* what a handler did: the store it leaves and the status it answers
Outcome(db, status) == [db |-> db, status |-> status]

\* the AUTOINCREMENT sequences stay within the model's bounds
WithinBounds(db) ==
    /\ db.seq_options <= MaxOptionId
    /\ db.seq_selections <= MaxSelectionId

----------------------------------------------------------------------------
(* POST /choosers *)

\* mutant of CreateRun: the snapshot is taken from the seeded template
CreateRunSeedTemplate(db, req, instanceId, adminId, t) ==
    IF req.template_slug = "" \/ req.title = "" THEN Outcome(db, 400)
    ELSE IF req.template_slug \notin DOMAIN db.templates THEN Outcome(db, 404)
    ELSE LET template == SeedTemplates[req.template_slug]
             labels == IF req.has_labels THEN req.selection_labels ELSE DefaultLabels
         IN  IF InsertInstanceFails(db.instances, instanceId, adminId)
             THEN Outcome(db, 500)
             ELSE Outcome([db EXCEPT !.instances =
                              InsertInstance(@, instanceId, adminId, req.title, NULL,
                                             template, JSON_stringify(labels), t)],
                          201)

\* mutant of CreateRun: the title is not required
CreateRunUntitled(db, req, instanceId, adminId, t) ==
    IF req.template_slug = "" THEN Outcome(db, 400)
    ELSE IF req.template_slug \notin DOMAIN db.templates THEN Outcome(db, 404)
    ELSE LET template == db.templates[req.template_slug]
             labels == IF req.has_labels THEN req.selection_labels ELSE DefaultLabels
         IN  IF InsertInstanceFails(db.instances, instanceId, adminId)
             THEN Outcome(db, 500)
             ELSE Outcome([db EXCEPT !.instances =
                              InsertInstance(@, instanceId, adminId, req.title, NULL,
                                             template, JSON_stringify(labels), t)],
                          201)

CreateRun(db, req, instanceId, adminId, t) ==
    IF req.template_slug = "" \/ req.title = "" THEN Outcome(db, 400)
    ELSE IF req.template_slug \notin DOMAIN db.templates THEN Outcome(db, 404)
    ELSE LET template == db.templates[req.template_slug]
             labels == IF req.has_labels THEN req.selection_labels ELSE DefaultLabels
         IN  IF InsertInstanceFails(db.instances, instanceId, adminId)
             THEN Outcome(db, 500)
             ELSE Outcome([db EXCEPT !.instances =
                              InsertInstance(@, instanceId, adminId, req.title, NULL,
                                             template, JSON_stringify(labels), t)],
                          201)

\* the 201 response body
CreateBody(instanceId, adminId) ==
    [success |-> TRUE, instance_id |-> instanceId, admin_id |-> adminId,
     participant_url |-> <<"/a/v1/", instanceId>>,
     admin_url |-> <<"/a/v1/admin/", instanceId, "/", adminId>>,
     published |-> FALSE]

Create(req, instanceId, adminId) ==
    LET r == CreateRun(DB, req, instanceId, adminId, now)
    IN  /\ Idle
        /\ StoreBecomes(r.db)
        /\ response' = Resp("create", r.status)
        /\ UNCHANGED <<now, procs>>

----------------------------------------------------------------------------
(* PUT /choosers/:id/options *)

\* for (const option of options): validate the option, then insert it
RECURSIVE InsertOptionsLoop(_, _, _, _)
InsertOptionsLoop(db, id, options, i) ==
    IF i > Len(options) THEN Outcome(db, 200)
    ELSE IF options[i].value = "" \/ options[i].order = OrderUndefined
         THEN Outcome(db, 400)
         ELSE InsertOptionsLoop(
                  InsertOption(db, id, options[i].value, options[i].order, NULL),
                  id, options, i + 1)

ReplaceAllRun(db, id, admin_id, options, t) ==
    IF admin_id = "" THEN Outcome(db, 400)
    ELSE IF ~ HasInstance(db.instances, id) THEN Outcome(db, 404)
    ELSE IF AdminMismatch(InstanceRow(db.instances, id), admin_id) THEN Outcome(db, 403)
    ELSE LET r == InsertOptionsLoop(DeleteOptions(db, id), id, options, 1)
         IN  IF r.status # 200 THEN r
             ELSE Outcome([r.db EXCEPT !.instances = TouchUpdated(@, id, t)], 200)

ReplaceAll(id, admin_id, options) ==
    LET r == ReplaceAllRun(DB, id, admin_id, options, now)
    IN  /\ Idle
        /\ WithinBounds(r.db)
        /\ StoreBecomes(r.db)
        /\ response' = Resp("replaceAll", r.status)
        /\ UNCHANGED <<now, procs>>

----------------------------------------------------------------------------
(* PUT /choosers/:id/publish *)

\* mutant of PublishRun: publishing a published instance is an error
PublishRunOnce(db, id, admin_id, t) ==
    IF admin_id = "" THEN Outcome(db, 400)
    ELSE IF ~ HasInstance(db.instances, id) THEN Outcome(db, 404)
    ELSE IF AdminMismatch(InstanceRow(db.instances, id), admin_id) THEN Outcome(db, 403)
    ELSE IF InstanceRow(db.instances, id).published = 1 THEN Outcome(db, 400)
    ELSE Outcome([db EXCEPT !.instances = SetPublished(@, id, t)], 200)

\* mutant of PublishRun: the flag is written before the token is compared
PublishRunWriteFirst(db, id, admin_id, t) ==
    IF admin_id = "" THEN Outcome(db, 400)
    ELSE IF ~ HasInstance(db.instances, id) THEN Outcome(db, 404)
    ELSE IF AdminMismatch(InstanceRow(db.instances, id), admin_id)
         THEN Outcome([db EXCEPT !.instances = SetPublished(@, id, t)], 403)
    ELSE IF InstanceRow(db.instances, id).published = 1 THEN Outcome(db, 200)
    ELSE Outcome([db EXCEPT !.instances = SetPublished(@, id, t)], 200)

PublishRun(db, id, admin_id, t) ==
    IF admin_id = "" THEN Outcome(db, 400)
    ELSE IF ~ HasInstance(db.instances, id) THEN Outcome(db, 404)
    ELSE IF AdminMismatch(InstanceRow(db.instances, id), admin_id) THEN Outcome(db, 403)
    ELSE IF InstanceRow(db.instances, id).published = 1 THEN Outcome(db, 200)
    ELSE Outcome([db EXCEPT !.instances = SetPublished(@, id, t)], 200)

Publish(id, admin_id) ==
    LET r == PublishRun(DB, id, admin_id, now)
    IN  /\ Idle
        /\ StoreBecomes(r.db)
        /\ response' = Resp("publish", r.status)
        /\ UNCHANGED <<now, procs>>

----------------------------------------------------------------------------
(* POST /choosers/:id/selections *)

\* mutant of Includes: any value passes
IncludesAny(labels, value) == TRUE

\* allowedLabels.includes(selection_value)
Includes(labels, value) == \E k \in 1..Len(labels) : labels[k] = value

\* if (existing) UPDATE ... WHERE id = existing.id, else INSERT; an INSERT the
\* store refuses throws, and the handler's catch answers 500
UpsertSelection(db, id, option_id, name, value, t) ==
    LET existing == ExistingSelections(db, id, option_id, name)
    IN  IF existing # {}
        THEN Outcome(UpdateSelection(db, (CHOOSE e \in existing : TRUE).id, value, t), 200)
        ELSE IF InsertSelectionFails(db, id, option_id, name)
             THEN Outcome(db, 500)
             ELSE Outcome(InsertSelection(db, id, option_id, name, value, t), 200)

\* the checks on one selection, in the order of the loop body: 400 or 200
ValidateSelection(db, id, allowedLabels, sel) ==
    IF sel.option_id = 0 \/ sel.selection_value = "" THEN 400
    ELSE IF ~ Includes(allowedLabels, sel.selection_value) THEN 400
    ELSE IF ~ OptionBelongs(db, sel.option_id, id) THEN 400
    ELSE 200

\* for (const selection of selections): validate the selection, then write it
RECURSIVE SubmitLoop(_, _, _, _, _, _, _)
SubmitLoop(db, id, name, allowedLabels, selections, i, t) ==
    IF i > Len(selections) THEN Outcome(db, 200)
    ELSE IF ValidateSelection(db, id, allowedLabels, selections[i]) # 200
         THEN Outcome(db, 400)
         ELSE LET w == UpsertSelection(db, id, selections[i].option_id, name,
                                       selections[i].selection_value, t)
              IN  IF w.status # 200 THEN w
                  ELSE SubmitLoop(w.db, id, name, allowedLabels, selections, i + 1, t)

\* mutant of SubmitRun: the pairs are validated before the publish state
SubmitRunValidateFirst(db, id, name, selections, t) ==
    IF name = "" THEN Outcome(db, 400)
    ELSE IF ~ HasInstance(db.instances, id) THEN Outcome(db, 404)
    ELSE LET allowedLabels == JSON_parse(InstanceRow(db.instances, id).selection_labels)
         IN  IF \E k \in 1..Len(selections) :
                    ValidateSelection(db, id, allowedLabels, selections[k]) # 200
             THEN Outcome(db, 400)
             ELSE IF NotPublished(InstanceRow(db.instances, id)) THEN Outcome(db, 403)
             ELSE LET r == SubmitLoop(db, id, name, allowedLabels, selections, 1, t)
                  IN  IF r.status # 200 THEN r
                      ELSE Outcome([r.db EXCEPT !.instances = TouchViewed(@, id, t)], 200)

SubmitRun(db, id, name, selections, t) ==
    IF name = "" THEN Outcome(db, 400)
    ELSE IF ~ HasInstance(db.instances, id) THEN Outcome(db, 404)
    ELSE IF NotPublished(InstanceRow(db.instances, id)) THEN Outcome(db, 403)
    ELSE LET allowedLabels == JSON_parse(InstanceRow(db.instances, id).selection_labels)
             r == SubmitLoop(db, id, name, allowedLabels, selections, 1, t)
         IN  IF r.status # 200 THEN r
             ELSE Outcome([r.db EXCEPT !.instances = TouchViewed(@, id, t)], 200)

Submit(id, name, selections) ==
    LET r == SubmitRun(DB, id, name, selections, now)
    IN  /\ Idle
        /\ WithinBounds(r.db)
        /\ StoreBecomes(r.db)
        /\ response' = Resp("submit", r.status)
        /\ UNCHANGED <<now, procs>>

----------------------------------------------------------------------------
(* GET /choosers/:id/results *)

\* mutant of OrderOptions: the rows come in id order
RECURSIVE OrderOptionsById(_)
OrderOptionsById(rows) ==
    IF rows = {} THEN <<>>
    ELSE LET first == CHOOSE x \in rows : \A y \in rows : x.id <= y.id
         IN  <<first>> \o OrderOptionsById(rows \ {first})

\* SELECT ... FROM chooser_options WHERE chooser_id = ? ORDER BY option_order ASC
\* (rows of equal option_order in id order)
RECURSIVE OrderOptions(_)
OrderOptions(rows) ==
    IF rows = {} THEN <<>>
    ELSE LET first == CHOOSE x \in rows : \A y \in rows :
                          \/ x.option_order < y.option_order
                          \/ x.option_order = y.option_order /\ x.id <= y.id
         IN  <<first>> \o OrderOptions(rows \ {first})

OptionRows(db, id) == OrderOptions({ o \in db.options : o.chooser_id = id })

\* the place of a participant name in ascending order
Collation == <<"Alice", "Bob">>
Rank(name) == CHOOSE k \in 1..Len(Collation) : Collation[k] = name

\* SELECT ... FROM participant_selections WHERE chooser_id = ?
\* ORDER BY participant_name ASC  (rows of equal name in id order)
RECURSIVE OrderSelections(_)
OrderSelections(rows) ==
    IF rows = {} THEN <<>>
    ELSE LET first == CHOOSE x \in rows : \A y \in rows :
                          \/ Rank(x.participant_name) < Rank(y.participant_name)
                          \/ x.participant_name = y.participant_name /\ x.id <= y.id
         IN  <<first>> \o OrderSelections(rows \ {first})

SelectionRows(db, id) == OrderSelections({ s \in db.selections : s.chooser_id = id })

\* mutant of FilterByOption: every selection of the instance is kept
FilterByOptionAll(selections, option_id) == selections

\* selections.filter(s => s.option_id === option.id)
FilterByOption(selections, option_id) ==
    SelectSeq(selections, LAMBDA s : s.option_id = option_id)

\* mutant of Summary: only the values somebody chose get an entry
SummaryChosenOnly(labels, optionSelections) ==
    LET keys == { optionSelections[k].selection_value : k \in 1..Len(optionSelections) }
    IN  [v \in keys |->
            Cardinality({ k \in 1..Len(optionSelections) :
                            optionSelections[k].selection_value = v })]

\* summary: 0 for every label, then one more per selection of the option
Summary(labels, optionSelections) ==
    LET keys == { labels[k] : k \in 1..Len(labels) }
                    \cup { optionSelections[k].selection_value : k \in 1..Len(optionSelections) }
    IN  [v \in keys |->
            Cardinality({ k \in 1..Len(optionSelections) :
                            optionSelections[k].selection_value = v })]

\* [...new Set(selections.map(s => s.participant_name))].sort()
RECURSIVE SortNames(_)
SortNames(names) ==
    IF names = {} THEN <<>>
    ELSE LET first == CHOOSE x \in names : \A y \in names : Rank(x) <= Rank(y)
         IN  <<first>> \o SortNames(names \ {first})

\* the 200 response body
GetResultsBody(db, id) ==
    LET chooser == InstanceRow(db.instances, id)
        selectionLabels == JSON_parse(chooser.selection_labels)
        options == OptionRows(db, id)
        selections == SelectionRows(db, id)
    IN  [chooser |-> [id |-> chooser.id, title |-> chooser.title,
                      published |-> (chooser.published = 1),
                      selection_labels |-> selectionLabels],
         options |->
            [k \in 1..Len(options) |->
                LET optionSelections == FilterByOption(selections, options[k].id)
                IN  [id |-> options[k].id, value |-> options[k].option_value,
                     order |-> options[k].option_order, metadata |-> options[k].metadata,
                     summary |-> Summary(selectionLabels, optionSelections),
                     selections |->
                        [j \in 1..Len(optionSelections) |->
                            [participant_name |-> optionSelections[j].participant_name,
                             selection_value |-> optionSelections[j].selection_value]]]],
         participants |->
            SortNames({ selections[k].participant_name : k \in 1..Len(selections) })]

GetResultsRun(db, id, t) ==
    IF ~ HasInstance(db.instances, id) THEN Outcome(db, 404)
    ELSE Outcome([db EXCEPT !.instances = TouchViewed(@, id, t)], 200)

GetResults(id) ==
    LET r == GetResultsRun(DB, id, now)
    IN  /\ Idle
        /\ StoreBecomes(r.db)
        /\ response' = Resp("getResults", r.status)
        /\ UNCHANGED <<now, procs>>

----------------------------------------------------------------------------
(* GET /choosers/:id *)

\* mutant of GetByIdBody: the whole row is sent, admin_id included
GetByIdBodyWholeRow(db, id) ==
    LET chooser == InstanceRow(db.instances, id)
        options == OptionRows(db, id)
    IN  [id |-> chooser.id, admin_id |-> chooser.admin_id, title |-> chooser.title,
         description |-> chooser.description,
         template_data |-> JSON_parse(chooser.template_data),
         selection_labels |-> JSON_parse(chooser.selection_labels),
         published |-> (chooser.published = 1),
         created_at |-> chooser.created_at,
         options |->
            [k \in 1..Len(options) |->
                [id |-> options[k].id, value |-> options[k].option_value,
                 order |-> options[k].option_order, metadata |-> options[k].metadata]]]

\* the 200 response body
GetByIdBody(db, id) ==
    LET chooser == InstanceRow(db.instances, id)
        options == OptionRows(db, id)
    IN  [id |-> chooser.id, title |-> chooser.title, description |-> chooser.description,
         template_data |-> JSON_parse(chooser.template_data),
         selection_labels |-> JSON_parse(chooser.selection_labels),
         published |-> (chooser.published = 1),
         created_at |-> chooser.created_at,
         options |->
            [k \in 1..Len(options) |->
                [id |-> options[k].id, value |-> options[k].option_value,
                 order |-> options[k].option_order, metadata |-> options[k].metadata]]]

GetByIdRun(db, id, t) ==
    IF ~ HasInstance(db.instances, id) THEN Outcome(db, 404)
    ELSE Outcome([db EXCEPT !.instances = TouchViewed(@, id, t)], 200)

GetById(id) ==
    LET r == GetByIdRun(DB, id, now)
    IN  /\ Idle
        /\ StoreBecomes(r.db)
        /\ response' = Resp("getById", r.status)
        /\ UNCHANGED <<now, procs>>

----------------------------------------------------------------------------
(* POST /choosers/:id/selections, one awaited statement at a time *)

\* the clients whose submit requests can be in flight together
Clients == {"c1", "c2"}

\* a request in flight: where the handler stands (pc), its request, the
\* handler's locals (allowedLabels, the loop index i, existing.id or 0 for
\* no row) and, at pc = "done", the status it answered
Proc(pc, id, name, selections, allowedLabels, i, existing, status) ==
    [pc |-> pc, id |-> id, participant_name |-> name, selections |-> selections,
     allowedLabels |-> allowedLabels, i |-> i, existing |-> existing, status |-> status]

NoRequest == Proc("idle", "", "", <<>>, <<>>, 0, 0, 0)

Answer(proc, status) == [proc EXCEPT !.pc = "done", !.status = status]

\* the request arrives: the body is parsed and its required fields checked
SubmitBegin(c, id, name, selections) ==
    /\ procs[c].pc = "idle"
    /\ procs' = [procs EXCEPT ![c] =
            IF name = ""
            THEN Answer(Proc("idle", id, name, selections, <<>>, 0, 0, 0), 400)
            ELSE Proc("chooser", id, name, selections, <<>>, 0, 0, 0)]
    /\ UNCHANGED <<db_vars, now, response>>

\* await SELECT published, selection_labels FROM chooser_instances WHERE id = ?
SubmitFetchChooser(c) ==
    LET p == procs[c]
    IN  /\ p.pc = "chooser"
        /\ procs' = [procs EXCEPT ![c] =
                IF ~ HasInstance(chooser_instances, p.id) THEN Answer(p, 404)
                ELSE IF NotPublished(InstanceRow(chooser_instances, p.id)) THEN Answer(p, 403)
                ELSE [p EXCEPT !.pc = "option", !.i = 1,
                               !.allowedLabels =
                                   JSON_parse(InstanceRow(chooser_instances, p.id).selection_labels)]]
        /\ UNCHANGED <<db_vars, now, response>>

\* the loop head, the checks on selections[i] and
\* await SELECT id FROM chooser_options WHERE id = ? AND chooser_id = ?
SubmitCheckOption(c) ==
    LET p == procs[c]
    IN  /\ p.pc = "option"
        /\ procs' = [procs EXCEPT ![c] =
                IF p.i > Len(p.selections) THEN [p EXCEPT !.pc = "viewed"]
                ELSE IF ValidateSelection(DB, p.id, p.allowedLabels, p.selections[p.i]) # 200
                     THEN Answer(p, 400)
                     ELSE [p EXCEPT !.pc = "existing"]]
        /\ UNCHANGED <<db_vars, now, response>>

\* await SELECT id FROM participant_selections WHERE chooser_id = ? AND ...
SubmitSelectExisting(c) ==
    LET p == procs[c]
        existing == ExistingSelections(DB, p.id, p.selections[p.i].option_id,
                                       p.participant_name)
    IN  /\ p.pc = "existing"
        /\ procs' = [procs EXCEPT ![c] =
                [p EXCEPT !.pc = "write",
                          !.existing = IF existing = {} THEN 0
                                       ELSE (CHOOSE e \in existing : TRUE).id]]
        /\ UNCHANGED <<db_vars, now, response>>

\* await UPDATE ... WHERE id = existing.id, or await INSERT ...; an INSERT
\* the store refuses throws, and the handler's catch answers 500
SubmitWrite(c) ==
    LET p == procs[c]
        sel == p.selections[p.i]
    IN  /\ p.pc = "write"
        /\ IF p.existing # 0
           THEN /\ StoreBecomes(UpdateSelection(DB, p.existing, sel.selection_value, now))
                /\ procs' = [procs EXCEPT ![c] = [p EXCEPT !.pc = "option", !.i = @ + 1]]
           ELSE IF InsertSelectionFails(DB, p.id, sel.option_id, p.participant_name)
                THEN /\ UNCHANGED db_vars
                     /\ procs' = [procs EXCEPT ![c] = Answer(p, 500)]
                ELSE /\ seq_selections < MaxSelectionId
                     /\ StoreBecomes(InsertSelection(DB, p.id, sel.option_id,
                                                     p.participant_name,
                                                     sel.selection_value, now))
                     /\ procs' = [procs EXCEPT ![c] = [p EXCEPT !.pc = "option", !.i = @ + 1]]
        /\ UNCHANGED <<now, response>>

\* await UPDATE chooser_instances SET viewed_at = CURRENT_TIMESTAMP WHERE id = ?
SubmitTouchViewed(c) ==
    LET p == procs[c]
    IN  /\ p.pc = "viewed"
        /\ chooser_instances' = TouchViewed(chooser_instances, p.id, now)
        /\ procs' = [procs EXCEPT ![c] = Answer(p, 200)]
        /\ UNCHANGED <<chooser_templates, chooser_options, participant_selections,
                       seq_options, seq_selections, now, response>>

\* the client receives the response
SubmitEnd(c) ==
    /\ procs[c].pc = "done"
    /\ procs' = [procs EXCEPT ![c] = NoRequest]
    /\ UNCHANGED <<db_vars, now, response>>

----------------------------------------------------------------------------
(* PUT /choosers/:id/options, one awaited statement at a time *)

\* AUTOINCREMENT of chooser_options stops at this id in SpecReplace
MaxReplaceOptionId == 4

\* a replaceAll in flight: where the handler stands (pc), its request, the
\* loop index i and, at pc = "done", the status it answered
ReplaceProc(pc, id, admin_id, options, i, status) ==
    [pc |-> pc, id |-> id, admin_id |-> admin_id, options |-> options,
     i |-> i, status |-> status]

\* the request arrives: the body is parsed and its required fields checked
ReplaceBegin(c, id, admin_id, options) ==
    /\ procs[c].pc = "idle"
    /\ procs' = [procs EXCEPT ![c] =
            IF admin_id = ""
            THEN Answer(ReplaceProc("idle", id, admin_id, options, 0, 0), 400)
            ELSE ReplaceProc("verify", id, admin_id, options, 0, 0)]
    /\ UNCHANGED <<db_vars, now, response>>

\* await SELECT admin_id FROM chooser_instances WHERE id = ?
ReplaceVerify(c) ==
    LET p == procs[c]
    IN  /\ p.pc = "verify"
        /\ procs' = [procs EXCEPT ![c] =
                IF ~ HasInstance(chooser_instances, p.id) THEN Answer(p, 404)
                ELSE IF AdminMismatch(InstanceRow(chooser_instances, p.id), p.admin_id)
                     THEN Answer(p, 403)
                     ELSE [p EXCEPT !.pc = "delete"]]
        /\ UNCHANGED <<db_vars, now, response>>

\* await DELETE FROM chooser_options WHERE chooser_id = ?
ReplaceDelete(c) ==
    LET p == procs[c]
    IN  /\ p.pc = "delete"
        /\ StoreBecomes(DeleteOptions(DB, p.id))
        /\ procs' = [procs EXCEPT ![c] = [p EXCEPT !.pc = "insert", !.i = 1]]
        /\ UNCHANGED <<now, response>>

\* the loop head, the check of options[i] and await INSERT INTO chooser_options
ReplaceInsert(c) ==
    LET p == procs[c]
    IN  /\ p.pc = "insert"
        /\ IF p.i > Len(p.options)
           THEN /\ UNCHANGED db_vars
                /\ procs' = [procs EXCEPT ![c] = [p EXCEPT !.pc = "touch"]]
           ELSE IF p.options[p.i].value = "" \/ p.options[p.i].order = OrderUndefined
                THEN /\ UNCHANGED db_vars
                     /\ procs' = [procs EXCEPT ![c] = Answer(p, 400)]
                ELSE /\ seq_options < MaxReplaceOptionId
                     /\ StoreBecomes(InsertOption(DB, p.id, p.options[p.i].value,
                                                  p.options[p.i].order, NULL))
                     /\ procs' = [procs EXCEPT ![c] = [p EXCEPT !.i = @ + 1]]
        /\ UNCHANGED <<now, response>>

\* await UPDATE chooser_instances SET updated_at = CURRENT_TIMESTAMP WHERE id = ?
ReplaceTouchUpdated(c) ==
    LET p == procs[c]
    IN  /\ p.pc = "touch"
        /\ chooser_instances' = TouchUpdated(chooser_instances, p.id, now)
        /\ procs' = [procs EXCEPT ![c] = Answer(p, 200)]
        /\ UNCHANGED <<chooser_templates, chooser_options, participant_selections,
                       seq_options, seq_selections, now, response>>

\* the client receives the response
ReplaceEnd(c) ==
    /\ procs[c].pc = "done"
    /\ procs' = [procs EXCEPT ![c] = NoRequest]
    /\ UNCHANGED <<db_vars, now, response>>

----------------------------------------------------------------------------
(* The clock *)

Tick ==
    /\ Idle
    /\ now < MaxTime
    /\ now' = now + 1
    /\ UNCHANGED <<db_vars, response, procs>>

\* the client receives the response
Receive ==
    /\ ~ Idle
    /\ response' = NoResponse
    /\ UNCHANGED <<db_vars, now, procs>>

----------------------------------------------------------------------------
Init ==
    /\ chooser_templates = SeedTemplates
    /\ chooser_instances = {}
    /\ chooser_options = {}
    /\ participant_selections = {}
    /\ seq_options = 0
    /\ seq_selections = 0
    /\ now = 0
    /\ response = NoResponse
    /\ procs = [c \in Clients |-> NoRequest]

Next ==
    \/ \E req \in CreateRequests, g \in GeneratedIdsOne : Create(req, g[1], g[2])
    \/ \E id \in PublicIds, req \in ReplaceAllRequests :
          ReplaceAll(id, req.admin_id, req.options)
    \/ \E id \in PublicIds, a \in SuppliedAdminIds : Publish(id, a)
    \/ \E id \in PublicIds, req \in SubmitRequests :
          Submit(id, req.participant_name, req.selections)
    \/ \E id \in PublicIds : GetResults(id)
    \/ \E id \in PublicIds : GetById(id)
    \/ Tick
    \/ Receive

Spec == Init /\ [][Next]_vars

----------------------------------------------------------------------------
(* Data retention: the scheduled cleanup, and templates that evolve *)

\* datetime('now', '-24 hours'), in hours
DraftRetentionHours == 24
\* datetime('now', '-180 days'), in hours
IdleRetentionHours == 180 * 24

\* mutant of DeleteInstances: the rows go, their options and selections stay
DeleteInstancesOnly(db, gone) ==
    [db EXCEPT !.instances = { c \in @ : c.id \notin gone }]

\* DELETE FROM chooser_instances WHERE id IN gone, with the cascades of
\* chooser_options.chooser_id, participant_selections.chooser_id and
\* participant_selections.option_id (all ON DELETE CASCADE)
DeleteInstances(db, gone) ==
    LET options_gone == { o.id : o \in { x \in db.options : x.chooser_id \in gone } }
    IN  [db EXCEPT !.instances = { c \in @ : c.id \notin gone },
                   !.options = { o \in @ : o.chooser_id \notin gone },
                   !.selections = { x \in @ : /\ x.chooser_id \notin gone
                                                /\ x.option_id \notin options_gone }]

\* mutant of SweepDraftsRun: a draft of exactly 24 hours goes too
SweepDraftsRunInclusive(db, t) ==
    DeleteInstances(db, { c.id : c \in { x \in db.instances :
                              x.published = 0 /\ x.created_at <= t - DraftRetentionHours } })

\* mutant of SweepDraftsRun: a draft viewed in the last 24 hours is kept
SweepDraftsRunUnviewed(db, t) ==
    DeleteInstances(db, { c.id : c \in { x \in db.instances :
                              /\ x.published = 0
                              /\ x.created_at < t - DraftRetentionHours
                              /\ x.viewed_at < t - DraftRetentionHours } })

\* DELETE FROM chooser_instances
\* WHERE published = 0 AND created_at < datetime('now', '-24 hours')
SweepDraftsRun(db, t) ==
    DeleteInstances(db, { c.id : c \in { x \in db.instances :
                              x.published = 0 /\ x.created_at < t - DraftRetentionHours } })

\* DELETE FROM chooser_instances WHERE viewed_at < datetime('now', '-180 days')
SweepInactiveRun(db, t) ==
    DeleteInstances(db, { c.id : c \in { x \in db.instances :
                              x.viewed_at < t - IdleRetentionHours } })

\* the cron job runs one cleanup statement, between two requests
SweepDrafts ==
    /\ Idle
    /\ StoreBecomes(SweepDraftsRun(DB, now))
    /\ UNCHANGED <<now, response, procs>>

SweepInactive ==
    /\ Idle
    /\ StoreBecomes(SweepInactiveRun(DB, now))
    /\ UNCHANGED <<now, response, procs>>

\* the instants at which SpecRetention looks at the store, in hours: around
\* 24 hours and around 180 days after the start
Instants == {0, 23, 24, 25, 179 * 24, 180 * 24, 181 * 24}

\* time passes, to a later instant
Elapse(t) ==
    /\ Idle
    /\ t > now
    /\ now' = t
    /\ UNCHANGED <<db_vars, response, procs>>

\* a template is updated to a new version of its schema document
NewTemplateData(slug) == [json |-> [type |-> slug, version |-> 2]]

UpdateTemplate(slug) ==
    /\ Idle
    /\ slug \in DOMAIN chooser_templates
    /\ chooser_templates[slug] # NewTemplateData(slug)
    /\ chooser_templates' = [chooser_templates EXCEPT ![slug] = NewTemplateData(slug)]
    /\ UNCHANGED <<chooser_instances, chooser_options, participant_selections,
                   seq_options, seq_selections, now, response, procs>>

\* the requests of SpecRetention and SpecIds: creates with a good body, an
\* unknown template and no title, one option batch, one submit per option
RetentionCreateRequests ==
    { req \in CreateRequests : ~ req.has_labels /\ req.template_slug # "" }

RetentionOptionBatches == { <<[value |-> "Pizza", order |-> 0]>> }

RetentionSubmitRequests ==
    [participant_name : {"Alice"},
     selections : { <<[option_id |-> o, selection_value |-> "ok"]>> : o \in 1..MaxOptionId }]

NextRetention ==
    \/ \E req \in RetentionCreateRequests, g \in GeneratedIdsOne : Create(req, g[1], g[2])
    \/ \E id \in PublicIds, a \in AdminIds, b \in RetentionOptionBatches :
          ReplaceAll(id, a, b)
    \/ \E id \in PublicIds, a \in AdminIds : Publish(id, a)
    \/ \E id \in PublicIds, req \in RetentionSubmitRequests :
          Submit(id, req.participant_name, req.selections)
    \/ \E id \in PublicIds : GetResults(id)
    \/ \E id \in PublicIds : GetById(id)
    \/ SweepDrafts
    \/ SweepInactive
    \/ \E t \in Instants : Elapse(t)
    \/ UpdateTemplate("simple_poll")
    \/ Receive

SpecRetention == Init /\ [][NextRetention]_vars

\* SpecSweeper: the cron job is scheduled again and again and time passes,
\* whatever the requests do; instances are created early enough for the
\* clock of the model to pass their 24 hours
SweeperInstants == {0, 12, 25, 180 * 24, 181 * 24}

LastInstant == 181 * 24

CreateEarly(req, instanceId, adminId) ==
    /\ now + DraftRetentionHours < LastInstant
    /\ Create(req, instanceId, adminId)

NextSweeper ==
    \/ \E req \in RetentionCreateRequests, g \in GeneratedIdsOne :
          CreateEarly(req, g[1], g[2])
    \/ \E id \in PublicIds, a \in AdminIds : Publish(id, a)
    \/ \E id \in PublicIds : GetById(id)
    \/ SweepDrafts
    \/ SweepInactive
    \/ \E t \in SweeperInstants : Elapse(t)
    \/ Receive

SpecSweeper ==
    /\ Init /\ [][NextSweeper]_vars
    /\ SF_vars(SweepDrafts)
    /\ SF_vars(SweepInactive)
    /\ SF_vars(\E t \in SweeperInstants : Elapse(t))
    /\ WF_vars(Receive)

\* SpecIds: several instances, whose creates draw fresh and colliding ids;
\* drafts are cleaned up a day later, so that ids come back into use
IdsInstants == {0, 25, 50}

NextIds ==
    \/ \E req \in RetentionCreateRequests, g \in GeneratedIds : Create(req, g[1], g[2])
    \/ \E id \in PublicIds, a \in AdminIds, b \in RetentionOptionBatches :
          ReplaceAll(id, a, b)
    \/ \E id \in PublicIds, a \in AdminIds : Publish(id, a)
    \/ \E id \in PublicIds, req \in RetentionSubmitRequests :
          Submit(id, req.participant_name, req.selections)
    \/ \E id \in PublicIds : GetById(id)
    \/ SweepDrafts
    \/ \E t \in IdsInstants : Elapse(t)
    \/ Receive

SpecIds == Init /\ [][NextIds]_vars

\* the requests of SpecConc: an instance is set up with its admin token, and
\* two clients submit for the same participant
ConcCreateRequests ==
    { [template_slug |-> "simple_poll", title |-> "Lunch",
       has_labels |-> FALSE, selection_labels |-> <<>>] }

ConcOptionBatches ==
    { <<[value |-> "Pizza", order |-> 0]>>,
      <<[value |-> "Pizza", order |-> 0], [value |-> "Tacos", order |-> 1]>> }

ConcSubmitRequests ==
    [participant_name : {"Alice"},
     selections : { <<[option_id |-> 1, selection_value |-> "no"]>>,
                    <<[option_id |-> 1, selection_value |-> "ok"]>>,
                    <<[option_id |-> 2, selection_value |-> "ok"],
                      [option_id |-> 1, selection_value |-> "ideal"]>> }]

NextConc ==
    \/ \E req \in ConcCreateRequests, g \in GeneratedIdsOne : Create(req, g[1], g[2])
    \/ \E id \in PublicIds, b \in ConcOptionBatches : ReplaceAll(id, "aaaaaaaaaaaaaaaa", b)
    \/ \E id \in PublicIds : Publish(id, "aaaaaaaaaaaaaaaa")
    \/ Receive
    \/ \E c \in Clients, id \in PublicIds, req \in ConcSubmitRequests :
          SubmitBegin(c, id, req.participant_name, req.selections)
    \/ \E c \in Clients : SubmitFetchChooser(c)
    \/ \E c \in Clients : SubmitCheckOption(c)
    \/ \E c \in Clients : SubmitSelectExisting(c)
    \/ \E c \in Clients : SubmitWrite(c)
    \/ \E c \in Clients : SubmitTouchViewed(c)
    \/ \E c \in Clients : SubmitEnd(c)

SpecConc == Init /\ [][NextConc]_vars

\* the requests of SpecReplace: two clients replace the options of one
\* instance, with batches that share no option
ReplaceConcBatches ==
    { <<[value |-> "Pizza", order |-> 0]>>,
      <<[value |-> "Tacos", order |-> 1], [value |-> "Salad", order |-> 2]>>,
      <<[value |-> "Soup", order |-> 0], [value |-> "", order |-> 1]>> }

NextReplace ==
    \/ \E req \in ConcCreateRequests, g \in GeneratedIdsOne : Create(req, g[1], g[2])
    \/ Receive
    \/ \E c \in Clients, id \in PublicIds, a \in AdminIds \cup {""},
           b \in ReplaceConcBatches : ReplaceBegin(c, id, a, b)
    \/ \E c \in Clients : ReplaceVerify(c)
    \/ \E c \in Clients : ReplaceDelete(c)
    \/ \E c \in Clients : ReplaceInsert(c)
    \/ \E c \in Clients : ReplaceTouchUpdated(c)
    \/ \E c \in Clients : ReplaceEnd(c)

SpecReplace == Init /\ [][NextReplace]_vars

----------------------------------------------------------------------------
(* Vocabulary of the properties *)

OptionsOf(db, id) == { o \in db.options : o.chooser_id = id }
SelectionsOf(db, id) == { s \in db.selections : s.chooser_id = id }

\* the request carries the stored admin token of an existing instance
Authorized(db, id, admin_id) ==
    /\ admin_id # ""
    /\ HasInstance(db.instances, id)
    /\ InstanceRow(db.instances, id).admin_id = admin_id

IsPublished(db, id) ==
    HasInstance(db.instances, id) /\ InstanceRow(db.instances, id).published = 1

LabelsOf(db, id) ==
    LET labels == JSON_parse(InstanceRow(db.instances, id).selection_labels)
    IN  { labels[k] : k \in 1..Len(labels) }

\* an options[] entry with no value or no order
EntryInvalid(option) == option.value = "" \/ option.order = OrderUndefined

\* a selections[] pair with an absent field, a value outside the instance's
\* labels, or an option id the instance does not own
PairInvalid(db, id, sel) ==
    \/ sel.option_id = 0
    \/ sel.selection_value \notin LabelsOf(db, id)
    \/ sel.option_id \notin { o.id : o \in OptionsOf(db, id) }

----------------------------------------------------------------------------
(* C1: replaceAll is atomic.  For every instance with stored options S and   *)
(* every batch holding at least one invalid entry, sent with the instance's  *)
(* admin token, the answer is 400 and the instance's options are still S.    *)
C1_ReplaceAllAtomic ==
    Idle =>
        \A id \in PublicIds, req \in ReplaceAllRequests :
            ( /\ Authorized(DB, id, req.admin_id)
              /\ \E k \in 1..Len(req.options) : EntryInvalid(req.options[k]) )
            => LET r == ReplaceAllRun(DB, id, req.admin_id, req.options, now)
               IN  r.status = 400 /\ OptionsOf(r.db, id) = OptionsOf(DB, id)

(* C2: submit is all-or-nothing.  For every published instance and every     *)
(* batch holding at least one invalid pair, wherever it stands in the batch, *)
(* the request is rejected and the stored selections are those of before.    *)
C2_SubmitAllOrNothing ==
    Idle =>
        \A id \in PublicIds, req \in SubmitRequests :
            ( /\ IsPublished(DB, id)
              /\ req.participant_name # ""
              /\ \E k \in 1..Len(req.selections) : PairInvalid(DB, id, req.selections[k]) )
            => LET r == SubmitRun(DB, id, req.participant_name, req.selections, now)
               IN  r.status = 400 /\ r.db.selections = DB.selections

(* C3: the publish gate.  For every draft instance, a submit carrying a      *)
(* participant name is answered 403 and changes nothing in the store; once   *)
(* publish has succeeded, the identical submit, its option ids and values    *)
(* valid for the instance, is answered 200.                                   *)
C3_PublishGate ==
    Idle =>
        \A id \in PublicIds, req \in SubmitRequests :
            ( /\ HasInstance(chooser_instances, id)
              /\ ~ IsPublished(DB, id)
              /\ req.participant_name # "" )
            => LET draft == SubmitRun(DB, id, req.participant_name, req.selections, now)
               IN  /\ draft.status = 403
                   /\ draft.db = DB
                   /\ \A a \in SuppliedAdminIds :
                         LET p == PublishRun(DB, id, a, now)
                         IN  ( /\ p.status = 200
                               /\ \A k \in 1..Len(req.selections) :
                                     ~ PairInvalid(DB, id, req.selections[k]) )
                             => SubmitRun(p.db, id, req.participant_name,
                                          req.selections, now).status = 200

\* a submit to a draft that has options was answered 403
C3_Witness ==
    /\ response = Resp("submit", 403)
    /\ \E c \in chooser_instances : c.published = 0 /\ OptionsOf(DB, c.id) # {}

(* C4: the public id alone never authorizes mutation.  For every instance, a *)
(* replaceAll or publish whose admin_id is given and differs from the stored *)
(* admin token is answered 403 and leaves the whole store (published flag,   *)
(* updatedAt, options, selections) as it was.                                 *)
C4_WrongTokenForbidden ==
    Idle =>
        \A id \in PublicIds :
            HasInstance(chooser_instances, id) =>
                /\ \A req \in ReplaceAllRequests :
                      (req.admin_id # "" /\ req.admin_id # InstanceRow(chooser_instances, id).admin_id)
                      => ReplaceAllRun(DB, id, req.admin_id, req.options, now) = Outcome(DB, 403)
                /\ \A a \in SuppliedAdminIds :
                      (a # "" /\ a # InstanceRow(chooser_instances, id).admin_id)
                      => PublishRun(DB, id, a, now) = Outcome(DB, 403)

\* a replaceAll on an instance that has options was answered 403
C4_Witness ==
    /\ response = Resp("replaceAll", 403)
    /\ chooser_options # {}

(* C5: admin-token secrecy.  In every reachable store, the bodies of          *)
(* GET /choosers/:id and GET /choosers/:id/results of an instance have no     *)
(* admin_id field, none of their text fields is the instance's admin token,   *)
(* and the bodies are the same whatever the instance's admin token is.        *)
WithAdminToken(db, id, token) ==
    [db EXCEPT !.instances =
        { IF c.id = id THEN [c EXCEPT !.admin_id = token] ELSE c : c \in @ }]

C5_AdminTokenSecret ==
    \A c \in chooser_instances :
        LET details == GetByIdBody(DB, c.id)
            results == GetResultsBody(DB, c.id)
        IN  /\ "admin_id" \notin DOMAIN details
            /\ "admin_id" \notin DOMAIN results \cup DOMAIN results.chooser
            /\ c.admin_id \notin {details.id, details.title, details.description}
            /\ c.admin_id \notin {results.chooser.id, results.chooser.title}
            /\ \A k \in 1..Len(details.options) : details.options[k].value # c.admin_id
            /\ \A k \in 1..Len(results.participants) : results.participants[k] # c.admin_id
            /\ \A token \in AdminIds \cup {"cccccccccccccccc"} :
                  /\ GetByIdBody(WithAdminToken(DB, c.id, token), c.id) = details
                  /\ GetResultsBody(WithAdminToken(DB, c.id, token), c.id) = results

\* results were served for an instance that has options and selections
C5_Witness ==
    /\ response = Resp("getResults", 200)
    /\ participant_selections # {}

(* C6: upsert by natural key.  Every reachable store holds at most one        *)
(* selection row per (chooser_id, option_id, participant_name); and when a    *)
(* participant with no row for an option submits a value for it and then a    *)
(* different value, the triple has one row, holding the second value, with    *)
(* updated_at the time of the second submit and created_at that of the first. *)
C6_UpsertByKey ==
    /\ \A s1 \in participant_selections, s2 \in participant_selections :
          ( /\ s1.chooser_id = s2.chooser_id
            /\ s1.option_id = s2.option_id
            /\ s1.participant_name = s2.participant_name ) => s1 = s2
    /\ Idle =>
          \A id \in PublicIds, name \in ParticipantNames, o \in 1..MaxOptionId,
             v1 \in {"no", "ok", "yes"}, v2 \in {"no", "ok", "yes"}, t2 \in now..MaxTime :
              LET first == SubmitRun(DB, id, name,
                                     <<[option_id |-> o, selection_value |-> v1]>>, now)
                  second == SubmitRun(first.db, id, name,
                                      <<[option_id |-> o, selection_value |-> v2]>>, t2)
                  rows == ExistingSelections(second.db, id, o, name)
              IN  ( /\ v1 # v2
                    /\ ExistingSelections(DB, id, o, name) = {}
                    /\ first.status = 200
                    /\ second.status = 200 )
                  => /\ Cardinality(rows) = 1
                     /\ \A r \in rows : /\ r.selection_value = v2
                                         /\ r.updated_at = t2
                                         /\ r.created_at = now

\* a row was written again at a later time than it was inserted
C6_Witness ==
    /\ response = Resp("submit", 200)
    /\ \E s \in participant_selections : s.updated_at > s.created_at

(* C7: concurrent submits for one triple resolve as an upsert.  When two      *)
(* submits for the same instance, option and participant have both been       *)
(* answered, whatever the interleaving of their statements, and the option    *)
(* is still there, neither was answered 500 and the triple has exactly one    *)
(* row, holding the value of one of the two.                                  *)
C7_ConcurrentUpsert ==
    \A c1 \in Clients, c2 \in Clients :
        \A o \in 1..MaxOptionId :
            LET p1 == procs[c1]
                p2 == procs[c2]
                rows == ExistingSelections(DB, p1.id, o, p1.participant_name)
                values(p) == { p.selections[k].selection_value :
                                 k \in { j \in 1..Len(p.selections) :
                                            p.selections[j].option_id = o } }
            IN  ( /\ c1 # c2
                  /\ p1.pc = "done" /\ p2.pc = "done"
                  /\ p1.id = p2.id /\ p1.participant_name = p2.participant_name
                  /\ values(p1) # {} /\ values(p2) # {}
                  /\ OptionBelongs(DB, o, p1.id)
                  /\ p1.status \notin {400, 403, 404} /\ p2.status \notin {400, 403, 404} )
                => /\ p1.status # 500 /\ p2.status # 500
                   /\ Cardinality(rows) = 1
                   /\ \A r \in rows : r.selection_value \in values(p1) \cup values(p2)

(* C8: published is monotonic.  Under create, replaceAll, publish, submit,    *)
(* getById and getResults, an instance that is published is still there and   *)
(* published after every step.                                                *)
C8_PublishedMonotonic ==
    [][ \A c \in chooser_instances :
            c.published = 1 =>
                \E d \in chooser_instances' : d.id = c.id /\ d.published = 1 ]_vars

\* the options of a published instance were replaced
C8_Witness ==
    /\ response = Resp("replaceAll", 200)
    /\ \E c \in chooser_instances : c.published = 1

(* C9: publish is idempotent.  With the stored admin token, publish is        *)
(* answered 200 whether or not the instance is already published, and a       *)
(* second publish leaves the instance published, as the first did.            *)
C9_PublishIdempotent ==
    Idle =>
        \A id \in PublicIds, a \in SuppliedAdminIds, t2 \in now..MaxTime :
            Authorized(DB, id, a) =>
                LET once == PublishRun(DB, id, a, now)
                    twice == PublishRun(once.db, id, a, t2)
                IN  /\ once.status = 200
                    /\ twice.status = 200
                    /\ IsPublished(once.db, id)
                    /\ InstanceRow(twice.db.instances, id).published
                          = InstanceRow(once.db.instances, id).published

\* publish was answered 200 for an instance published at an earlier time
C9_Witness ==
    /\ response = Resp("publish", 200)
    /\ \E c \in chooser_instances : c.published = 1 /\ c.updated_at < now

(* C10: stored values are labels.  In every reachable store each selection's  *)
(* selection_value is one of the selection_labels of its instance; and a      *)
(* submit with a participant name to a published instance, carrying a value   *)
(* outside the labels, is answered 400.                                       *)
C10_ValuesAreLabels ==
    /\ \A s \in participant_selections :
          /\ HasInstance(chooser_instances, s.chooser_id)
          /\ s.selection_value \in LabelsOf(DB, s.chooser_id)
    /\ Idle =>
          \A id \in PublicIds, req \in SubmitRequests :
              ( /\ IsPublished(DB, id)
                /\ req.participant_name # ""
                /\ \E k \in 1..Len(req.selections) :
                      req.selections[k].selection_value \notin LabelsOf(DB, id) )
              => SubmitRun(DB, id, req.participant_name, req.selections, now).status = 400

\* a submit was answered 400 by an instance that holds selections
C10_Witness ==
    /\ response = Resp("submit", 400)
    /\ participant_selections # {}

(* C11: result tallies.  In every reachable store, for every instance and     *)
(* every option in the results body, the tally has an entry for each of the   *)
(* instance's labels, the entry of a label nobody chose for the option is 0,  *)
(* and the counts add up to the number of distinct participants that have a   *)
(* selection row for the option.                                              *)
RECURSIVE SumCounts(_, _)
SumCounts(summary, keys) ==
    IF keys = {} THEN 0
    ELSE LET v == CHOOSE x \in keys : TRUE
         IN  summary[v] + SumCounts(summary, keys \ {v})

C11_TallySums ==
    \A c \in chooser_instances :
        LET body == GetResultsBody(DB, c.id)
            labels == JSON_parse(c.selection_labels)
        IN  \A k \in 1..Len(body.options) :
                LET o == body.options[k]
                    rows == { s \in participant_selections : s.option_id = o.id }
                IN  /\ \A j \in 1..Len(labels) :
                          /\ labels[j] \in DOMAIN o.summary
                          /\ (~ \E s \in rows : s.selection_value = labels[j])
                                => o.summary[labels[j]] = 0
                    /\ SumCounts(o.summary, DOMAIN o.summary)
                          = Cardinality({ s.participant_name : s \in rows })

\* results were served for an option that two participants have chosen for
C11_Witness ==
    /\ response = Resp("getResults", 200)
    /\ \E s1 \in participant_selections, s2 \in participant_selections :
          s1.option_id = s2.option_id /\ s1.participant_name # s2.participant_name

(* C12: the Lunch scenario.  From a store with no instance: create with       *)
(* template simple_poll and title Lunch, labels omitted, answers 201 with     *)
(* published false; after replaceAll with Pizza (order 0) and Tacos           *)
(* (order 1), publish, and Alice submitting ok for Pizza, the results list    *)
(* Pizza before Tacos, Pizza with tally no 0, ok 1, ideal 0, Tacos with       *)
(* tally no 0, ok 0, ideal 0, and the participants are Alice alone.  The      *)
(* same results are served by every reachable store that holds this scenario. *)
LunchRequest ==
    [template_slug |-> "simple_poll", title |-> "Lunch",
     has_labels |-> FALSE, selection_labels |-> <<>>]

LunchOptions == <<[value |-> "Pizza", order |-> 0], [value |-> "Tacos", order |-> 1]>>

LunchTally(chosen) == [v \in {"no", "ok", "ideal"} |-> IF v = chosen THEN 1 ELSE 0]

LunchResults(body) ==
    /\ Len(body.options) = 2
    /\ body.options[1].value = "Pizza"
    /\ body.options[1].summary = LunchTally("ok")
    /\ body.options[2].value = "Tacos"
    /\ body.options[2].summary = LunchTally("none")
    /\ body.participants = <<"Alice">>

\* the store holds the scenario: Lunch with Pizza and Tacos, Alice ok for Pizza
LunchStored(db, id) ==
    /\ HasInstance(db.instances, id)
    /\ InstanceRow(db.instances, id).title = "Lunch"
    /\ JSON_parse(InstanceRow(db.instances, id).selection_labels) = DefaultLabels
    /\ { <<o.option_value, o.option_order>> : o \in OptionsOf(db, id) }
          = { <<"Pizza", 0>>, <<"Tacos", 1>> }
    /\ Cardinality(OptionsOf(db, id)) = 2
    /\ \E o \in OptionsOf(db, id) :
          /\ o.option_value = "Pizza"
          /\ { <<s.option_id, s.participant_name, s.selection_value>> :
                  s \in SelectionsOf(db, id) } = { <<o.id, "Alice", "ok">> }

C12_LunchScenario ==
    /\ (Idle /\ chooser_instances = {}) =>
          \A g \in GeneratedIdsOne :
              LET created == CreateRun(DB, LunchRequest, g[1], g[2], now)
                  replaced == ReplaceAllRun(created.db, g[1], g[2], LunchOptions, now)
                  published == PublishRun(replaced.db, g[1], g[2], now)
                  pizza == CHOOSE o \in OptionsOf(published.db, g[1]) :
                               o.option_value = "Pizza"
                  submitted == SubmitRun(published.db, g[1], "Alice",
                                         <<[option_id |-> pizza.id,
                                            selection_value |-> "ok"]>>, now)
                  fetched == GetResultsRun(submitted.db, g[1], now)
              IN  /\ created.status = 201
                  /\ CreateBody(g[1], g[2]).published = FALSE
                  /\ InstanceRow(created.db.instances, g[1]).published = 0
                  /\ replaced.status = 200 /\ published.status = 200
                  /\ submitted.status = 200 /\ fetched.status = 200
                  /\ LunchResults(GetResultsBody(submitted.db, g[1]))
    /\ \A id \in PublicIds :
          LunchStored(DB, id) => LunchResults(GetResultsBody(DB, id))

\* the results of the stored scenario were served
C12_Witness ==
    /\ response = Resp("getResults", 200)
    /\ \E id \in PublicIds : LunchStored(DB, id) /\ IsPublished(DB, id)

(* C13: retention eligibility.  In every reachable store, the cleanup         *)
(* statements run now delete an instance exactly when it is unpublished and   *)
(* was created more than 24 hours ago, or was last viewed more than 180 days  *)
(* ago: a draft goes at 25 hours and stays at 23 and at 24, a published       *)
(* instance goes when last viewed 181 days ago and stays at 179 and at 180.   *)
C13_RetentionEligibility ==
    \A c \in chooser_instances :
        LET by_draft == ~ HasInstance(SweepDraftsRun(DB, now).instances, c.id)
            by_idle == ~ HasInstance(SweepInactiveRun(DB, now).instances, c.id)
            age == now - c.created_at
            idle == now - c.viewed_at
        IN  /\ by_draft <=> (c.published = 0 /\ age > 24)
            /\ by_idle <=> (idle > 180 * 24)
            /\ (c.published = 0 /\ age = 25) => by_draft
            /\ (c.published = 0 /\ age = 23) => ~ by_draft /\ ~ by_idle
            /\ (c.published = 1 /\ idle = 181 * 24) => by_idle /\ ~ by_draft
            /\ (c.published = 1 /\ idle = 179 * 24) => ~ by_idle /\ ~ by_draft

\* a published instance holding a selection was last viewed 181 days ago
C13_Witness ==
    \E c \in chooser_instances :
        /\ c.published = 1
        /\ now - c.viewed_at = 181 * 24
        /\ SelectionsOf(DB, c.id) # {}

(* C14: cascade on instance deletion.  No reachable store holds an option     *)
(* whose instance does not exist, or a selection whose instance or option     *)
(* does not exist: the cleanup that deletes an instance deletes its options   *)
(* and selections in the same step.                                           *)
C14_CascadeOnDelete ==
    /\ \A o \in chooser_options : HasInstance(chooser_instances, o.chooser_id)
    /\ \A x \in participant_selections :
          /\ HasInstance(chooser_instances, x.chooser_id)
          /\ \E o \in chooser_options : o.id = x.option_id

\* options and selections were written, and the cleanup has left no instance
C14_Witness ==
    /\ chooser_instances = {}
    /\ seq_options > 0
    /\ seq_selections > 0

(* C15: viewed_at tracks activity.  Every getById and getResults of an        *)
(* existing instance, and every submit that writes at least one selection     *)
(* row of the instance, leaves the instance's viewed_at at the time of the    *)
(* request.                                                                   *)
C15_ViewedAtTracksActivity ==
    Idle =>
        \A id \in PublicIds :
            HasInstance(chooser_instances, id) =>
                /\ InstanceRow(GetByIdRun(DB, id, now).db.instances, id).viewed_at = now
                /\ InstanceRow(GetResultsRun(DB, id, now).db.instances, id).viewed_at = now
                /\ \A req \in SubmitRequests :
                      LET r == SubmitRun(DB, id, req.participant_name, req.selections, now)
                      IN  r.db.selections # DB.selections
                          => InstanceRow(r.db.instances, id).viewed_at = now

(* C16: template snapshot.  At every step, an instance that is created holds  *)
(* as template_data the document its template has at that moment, and the     *)
(* template_data of an instance that already exists stays what it was, also   *)
(* when the step updates the template.                                        *)
C16_TemplateSnapshot ==
    [][ \A d \in chooser_instances' :
            IF HasInstance(chooser_instances, d.id)
            THEN d.template_data = InstanceRow(chooser_instances, d.id).template_data
            ELSE \E req \in RetentionCreateRequests :
                    /\ req.template_slug \in DOMAIN chooser_templates
                    /\ req.title = d.title
                    /\ d.template_data = chooser_templates[req.template_slug] ]_vars

\* an instance was read whose template has been updated since its creation
C16_Witness ==
    /\ response = Resp("getById", 200)
    /\ \E c \in chooser_instances :
          /\ c.template_data = SeedTemplates["simple_poll"]
          /\ chooser_templates["simple_poll"] # SeedTemplates["simple_poll"]

(* C17: identifier well-formedness.  In every reachable store the public ids  *)
(* of the instances are pairwise distinct, their admin tokens are pairwise    *)
(* distinct and no admin token is the public id of its instance; a create     *)
(* whose generated public id or admin token is that of an existing instance   *)
(* leaves every existing instance as it was.                                  *)
C17_IdsWellFormed ==
    /\ \A c \in chooser_instances, d \in chooser_instances :
          (c.id = d.id \/ c.admin_id = d.admin_id) => c = d
    /\ \A c \in chooser_instances : c.admin_id # c.id
    /\ Idle =>
          \A req \in CreateRequests, g \in GeneratedIds :
              ( \E c \in chooser_instances : c.id = g[1] \/ c.admin_id = g[2] )
              => LET r == CreateRun(DB, req, g[1], g[2], now)
                 IN  /\ r.db.instances = chooser_instances
                     /\ r.status # 201

\* with two instances stored, a create drew ids in use and was refused
C17_Witness ==
    /\ response = Resp("create", 500)
    /\ Cardinality(chooser_instances) = 2

(* C18: create rejects bad input without side effect.  A create with a title  *)
(* and a template slug that does not resolve is answered 404, a create with   *)
(* an empty or missing title is answered 400, and both leave the store as it  *)
(* was; a create answered 201 adds exactly one instance, unpublished and      *)
(* without options, and keeps the others.                                     *)
C18_CreateRejects ==
    Idle =>
        \A req \in CreateRequests, g \in GeneratedIds :
            LET r == CreateRun(DB, req, g[1], g[2], now)
            IN  /\ req.title = "" => r = Outcome(DB, 400)
                /\ ( /\ req.title # "" /\ req.template_slug # ""
                      /\ req.template_slug \notin DOMAIN chooser_templates )
                   => r = Outcome(DB, 404)
                /\ r.status = 201 =>
                      /\ chooser_instances \subseteq r.db.instances
                      /\ Cardinality(r.db.instances \ chooser_instances) = 1
                      /\ \A c \in r.db.instances \ chooser_instances :
                            c.id = g[1] /\ c.published = 0
                      /\ OptionsOf(r.db, g[1]) = {}
                      /\ r.db.options = chooser_options
                /\ r.status # 201 => r.db = DB

\* a create was refused for its template while an instance has options, and
\* ids of cleaned-up instances are free again
C18_Witness ==
    /\ response = Resp("create", 404)
    /\ chooser_options # {}
    /\ Cardinality(chooser_instances) = 1

(* C19: every instance has at least one selection label.  In every reachable  *)
(* store the selection_labels of every instance is a list of length 1 or      *)
(* more, whatever selection_labels the create request carried.                *)
C19_LabelsNonEmpty ==
    \A c \in chooser_instances : Len(JSON_parse(c.selection_labels)) >= 1

(* C20: drafts are not visible to participants.  While an instance is not     *)
(* published, GET /choosers/:id and GET /choosers/:id/results do not answer   *)
(* 200 with its title, options or results.                                    *)
C20_DraftsInvisible ==
    Idle =>
        \A id \in PublicIds :
            ( HasInstance(chooser_instances, id) /\ ~ IsPublished(DB, id) )
            => /\ GetByIdRun(DB, id, now).status # 200
               /\ GetResultsRun(DB, id, now).status # 200

(* C21: concurrent replaceAll is serializable.  When two replaceAll requests  *)
(* on one instance, with valid batches A and B, have both been answered 200,  *)
(* whatever the interleaving of their statements, the instance's options are  *)
(* exactly A or exactly B; and the store a replaceAll leaves right after its  *)
(* DELETE, where an interruption stops it, still holds the options of before. *)
BatchOf(options) == { <<options[k].value, options[k].order>> : k \in 1..Len(options) }

StoredBatch(db, id) == { <<o.option_value, o.option_order>> : o \in OptionsOf(db, id) }

C21_ReplaceAllSerializable ==
    /\ \A c1 \in Clients, c2 \in Clients :
          LET p1 == procs[c1]
              p2 == procs[c2]
          IN  ( /\ c1 # c2
                /\ p1.pc = "done" /\ p2.pc = "done"
                /\ p1.status = 200 /\ p2.status = 200
                /\ p1.id = p2.id )
              => /\ StoredBatch(DB, p1.id) \in {BatchOf(p1.options), BatchOf(p2.options)}
                 /\ Cardinality(OptionsOf(DB, p1.id))
                       \in {Len(p1.options), Len(p2.options)}
    /\ \A c \in Clients :
          procs[c].pc = "delete"
          => OptionsOf(DeleteOptions(DB, procs[c].id), procs[c].id)
                = OptionsOf(DB, procs[c].id)

(* C22: replaceAll after responses discards them.  A replaceAll with the      *)
(* admin token and a valid batch is answered 200 on a published instance as   *)
(* on a draft, and leaves the instance without any selection: the results     *)
(* served right after it list the new options with every tally at 0 and no    *)
(* selection, and no participant.                                             *)
C22_ReplaceAllDiscardsResponses ==
    Idle =>
        \A id \in PublicIds, req \in ReplaceAllRequests :
            ( /\ Authorized(DB, id, req.admin_id)
              /\ \A k \in 1..Len(req.options) : ~ EntryInvalid(req.options[k]) )
            => LET r == ReplaceAllRun(DB, id, req.admin_id, req.options, now)
                   body == GetResultsBody(r.db, id)
               IN  /\ r.status = 200
                   /\ SelectionsOf(r.db, id) = {}
                   /\ Len(body.options) = Len(req.options)
                   /\ \A k \in 1..Len(body.options) :
                         /\ \A v \in DOMAIN body.options[k].summary :
                               body.options[k].summary[v] = 0
                         /\ body.options[k].selections = <<>>
                   /\ body.participants = <<>>

\* the options of a published instance that held a selection were replaced
C22_Witness ==
    /\ response = Resp("replaceAll", 200)
    /\ \E c \in chooser_instances : c.published = 1 /\ OptionsOf(DB, c.id) # {}
    /\ seq_selections > 0
    /\ participant_selections = {}

(* C24: results ordering and roster.  In the results of every instance the    *)
(* options are the instance's options in ascending option_order, and the      *)
(* participants are the distinct participant names of the instance's          *)
(* selections, each once, in ascending order.                                 *)
C24_ResultsOrdering ==
    \A c \in chooser_instances :
        LET body == GetResultsBody(DB, c.id)
        IN  /\ Len(body.options) = Cardinality(OptionsOf(DB, c.id))
            /\ { body.options[k].id : k \in 1..Len(body.options) }
                  = { o.id : o \in OptionsOf(DB, c.id) }
            /\ \A k \in 1..Len(body.options), j \in 1..Len(body.options) :
                  k < j => body.options[k].order <= body.options[j].order
            /\ { body.participants[k] : k \in 1..Len(body.participants) }
                  = { x.participant_name : x \in SelectionsOf(DB, c.id) }
            /\ \A k \in 1..Len(body.participants), j \in 1..Len(body.participants) :
                  k < j => Rank(body.participants[k]) < Rank(body.participants[j])

\* results were served for options inserted against their order, chosen by
\* two participants
C24_Witness ==
    /\ response = Resp("getResults", 200)
    /\ \E o1 \in chooser_options, o2 \in chooser_options :
          o1.id < o2.id /\ o1.option_order > o2.option_order
    /\ Cardinality({ x.participant_name : x \in participant_selections }) = 2

(* C26: requests answered 404 or 403 change nothing.  For getById,            *)
(* getResults, replaceAll, publish and submit, whenever the answer is 404 or  *)
(* 403 the whole store is what it was before the request.                     *)
C26_RefusalsChangeNothing ==
    Idle =>
        \A id \in PublicIds :
            LET refused(r) == r.status \in {403, 404} => r.db = DB
            IN  /\ refused(GetByIdRun(DB, id, now))
                /\ refused(GetResultsRun(DB, id, now))
                /\ \A req \in ReplaceAllRequests :
                      refused(ReplaceAllRun(DB, id, req.admin_id, req.options, now))
                /\ \A a \in SuppliedAdminIds : refused(PublishRun(DB, id, a, now))
                /\ \A req \in SubmitRequests :
                      refused(SubmitRun(DB, id, req.participant_name, req.selections, now))

\* a publish with a wrong token was refused, later than the draft was edited
C26_Witness ==
    /\ response = Resp("publish", 403)
    /\ \E c \in chooser_instances : c.published = 0 /\ c.updated_at < now

(* C28: the frame of submit.  A submit by participant P on instance A         *)
(* changes only selection rows keyed (A, o, P) for option ids o listed in     *)
(* the request: every other selection row, the options, and every field of    *)
(* the instances but viewed_at are as before.                                 *)
C28_SubmitFrame ==
    Idle =>
        \A id \in PublicIds, req \in SubmitRequests :
            LET r == SubmitRun(DB, id, req.participant_name, req.selections, now)
                listed == { req.selections[k].option_id : k \in 1..Len(req.selections) }
                keyed(x) == /\ x.chooser_id = id
                            /\ x.participant_name = req.participant_name
                            /\ x.option_id \in listed
            IN  /\ r.db.options = chooser_options
                /\ r.db.seq_options = seq_options
                /\ { [c EXCEPT !.viewed_at = 0] : c \in r.db.instances }
                      = { [c EXCEPT !.viewed_at = 0] : c \in chooser_instances }
                /\ \A x \in participant_selections : ~ keyed(x) => x \in r.db.selections
                /\ \A x \in r.db.selections : ~ keyed(x) => x \in participant_selections

\* a participant changed a selection of an option another participant chose
C28_Witness ==
    /\ response = Resp("submit", 200)
    /\ \E x \in participant_selections, y \in participant_selections :
          /\ x.option_id = y.option_id
          /\ x.participant_name # y.participant_name
          /\ x.updated_at > x.created_at
          /\ y.updated_at = y.created_at

(* C30: error precedence.  A submit carrying a participant name is answered   *)
(* 404 when the instance does not exist and 403 when it is not published,     *)
(* whatever its pairs are, also when every option id and value is invalid;    *)
(* a replaceAll or publish without admin_id is answered 400, whether or not   *)
(* the instance exists.                                                       *)
C30_ErrorPrecedence ==
    Idle =>
        \A id \in PublicIds :
            /\ \A req \in SubmitRequests :
                  req.participant_name # "" =>
                      LET r == SubmitRun(DB, id, req.participant_name, req.selections, now)
                      IN  /\ ~ HasInstance(chooser_instances, id) => r.status = 404
                          /\ ( HasInstance(chooser_instances, id) /\ ~ IsPublished(DB, id) )
                                => r.status = 403
            /\ \A b \in OptionBatches : ReplaceAllRun(DB, id, "", b, now).status = 400
            /\ PublishRun(DB, id, "", now).status = 400

\* a publish without admin_id was answered 400 while no instance exists
C30_Witness ==
    /\ response = Resp("publish", 400)
    /\ chooser_instances = {}

(* C25: referential integrity of selections.  In every reachable store the    *)
(* option_id of every selection is the id of an option of the selection's     *)
(* own instance; a submit with a participant name to a published instance,    *)
(* naming an option id of another instance or of no instance, is answered     *)
(* 400.                                                                       *)
C25_SelectionsReferToOwnOptions ==
    /\ \A x \in participant_selections :
          \E o \in chooser_options : o.id = x.option_id /\ o.chooser_id = x.chooser_id
    /\ Idle =>
          \A id \in PublicIds, req \in SubmitRequests :
              ( /\ IsPublished(DB, id)
                /\ req.participant_name # ""
                /\ \E k \in 1..Len(req.selections) :
                      /\ req.selections[k].option_id # 0
                      /\ req.selections[k].option_id
                            \notin { o.id : o \in OptionsOf(DB, id) } )
              => SubmitRun(DB, id, req.participant_name, req.selections, now).status = 400

\* a submit was answered 400 while two published instances have options
C25_Witness ==
    /\ response = Resp("submit", 400)
    /\ \E c \in chooser_instances, d \in chooser_instances :
          /\ c.id # d.id
          /\ c.published = 1 /\ d.published = 1
          /\ OptionsOf(DB, c.id) # {} /\ OptionsOf(DB, d.id) # {}

(* C27: instance isolation.  A replaceAll, publish, submit, getById or        *)
(* getResults addressed to instance A leaves the row (published flag and      *)
(* timestamps included), the options and the selections of every other        *)
(* instance B as they were.                                                   *)
C27_InstanceIsolation ==
    Idle =>
        \A a \in PublicIds, b \in chooser_instances :
            b.id # a =>
                LET kept(r) == /\ b \in r.db.instances
                               /\ OptionsOf(r.db, b.id) = OptionsOf(DB, b.id)
                               /\ SelectionsOf(r.db, b.id) = SelectionsOf(DB, b.id)
                IN  /\ kept(GetByIdRun(DB, a, now))
                    /\ kept(GetResultsRun(DB, a, now))
                    /\ \A req \in ReplaceAllRequests :
                          kept(ReplaceAllRun(DB, a, req.admin_id, req.options, now))
                    /\ \A t \in SuppliedAdminIds \cup AdminIds : kept(PublishRun(DB, a, t, now))
                    /\ \A req \in SubmitRequests :
                          kept(SubmitRun(DB, a, req.participant_name, req.selections, now))

\* the options of one instance were replaced while another holds a selection
C27_Witness ==
    /\ response = Resp("replaceAll", 200)
    /\ \E o \in chooser_options, x \in participant_selections :
          /\ o.id = seq_options
          /\ x.chooser_id # o.chooser_id

(* C29: option ids are never reused.  After a replaceAll answered 200, and    *)
(* after the same replaceAll once more, no option of any instance has an id   *)
(* that an option of the instance had before the call; a submit with a        *)
(* participant name to the instance, published, naming such an id, is         *)
(* answered 400, also when the new batch is the old one.                      *)
C29_OptionIdsNotReused ==
    Idle =>
        \A id \in PublicIds, req \in ReplaceAllRequests :
            LET old == { o.id : o \in OptionsOf(DB, id) }
                r == ReplaceAllRun(DB, id, req.admin_id, req.options, now)
                again == ReplaceAllRun(r.db, id, req.admin_id, req.options, now)
            IN  r.status = 200 =>
                    /\ \A o \in r.db.options : o.id \notin old
                    /\ again.status = 200
                    /\ \A o \in again.db.options :
                          o.id \notin old \cup { n.id : n \in OptionsOf(r.db, id) }
                    /\ IsPublished(r.db, id) =>
                          \A name \in ParticipantNames, sel \in SelectionInputs :
                              sel.option_id \in old =>
                                  SubmitRun(r.db, id, name, <<sel>>, now).status = 400

\* the one option of a published instance, Pizza, was replaced by Pizza
C29_Witness ==
    /\ response = Resp("replaceAll", 200)
    /\ seq_options = 2
    /\ \E c \in chooser_instances :
          /\ c.published = 1
          /\ { o.id : o \in OptionsOf(DB, c.id) } = {2}
    /\ Cardinality(chooser_options) = 1

(* C23: retention safety.  No step deletes a published instance viewed in     *)
(* the last 180 days; the draft cleanup run now deletes every unpublished     *)
(* instance created more than 24 hours ago, however recently it was viewed;   *)
(* and under a cron job that keeps being scheduled, an instance that stays    *)
(* unpublished is eventually deleted.                                         *)
IsDraft(id) ==
    HasInstance(chooser_instances, id) /\ InstanceRow(chooser_instances, id).published = 0

C23_RetentionSafety ==
    /\ [][ \A c \in chooser_instances :
              (c.published = 1 /\ now - c.viewed_at <= 180 * 24)
              => \E d \in chooser_instances' : d.id = c.id ]_vars
    /\ [] ( \A c \in chooser_instances :
              (c.published = 0 /\ now - c.created_at > 24)
              => ~ HasInstance(SweepDraftsRun(DB, now).instances, c.id) )
    /\ \A id \in PublicIds : IsDraft(id) ~> ~ IsDraft(id)

\* a draft created more than 24 hours ago has just been viewed
C23_Witness ==
    /\ response = Resp("getById", 200)
    /\ \E c \in chooser_instances :
          c.published = 0 /\ now - c.created_at > 24 /\ c.viewed_at = now

====
